---- MODULE Spec2Model ----
(***************************************************************************)
(* Model of the Pawn WASM wrapper: the C boundary functions pawncl_compile *)
(* and pawncl_free, and the TypeScript wrapper around the Emscripten       *)
(* module (initCompiler, addIncludeFile, compile, parseCompilerOutput,     *)
(* getCompiledAMX, cleanup), all in src/src/wasm_interface.c.              *)
(*                                                                         *)
(* Text is modelled as a sequence of one-character strings, so that the    *)
(* substring tests, the split on line breaks, the trim and the decimal     *)
(* formatting and parsing are computed the way the code computes them.     *)
(***************************************************************************)
EXTENDS Integers, Sequences, FiniteSets, TLC

(***************************************************************************)
(* Bounds of the model.                                                    *)
(***************************************************************************)
\* Number of host callers (concurrent async call chains of the event loop).
NumCallers == 2
\* The largest non-zero exit code of the opaque compiler in the model.
MaxExitCode == 1
\* The largest length of an include file's content.
MaxContentLen == 2
\* The largest number of entries of a list of include files.
MaxFiles == 2
\* The largest optimization and debug level of the compile options.
MaxLevel == 3
\* The largest number of additional flags of the compile options.
MaxFlags == 2
\* The largest number of pieces of a line, and of lines, of a raw output.
MaxPieces == 3
MaxLines == 2
\* Number of callers of initCompiler() where the waiter queue is examined.
NumInitCallers == 3
\* The largest number of flags of a long list of additional flags, and of
\* tokens of an options string handed to pawncl_compile directly.
MaxTokens == 30

(***************************************************************************)
(* Text literals of the source.                                            *)
(***************************************************************************)
\* "Error: Could not create input file"
MsgNoInputFile ==
  <<"E","r","r","o","r",":"," ","C","o","u","l","d"," ","n","o","t"," ","c",
    "r","e","a","t","e"," ","i","n","p","u","t"," ","f","i","l","e">>

\* "Error: Memory allocation failed"
MsgAllocFailed ==
  <<"E","r","r","o","r",":"," ","M","e","m","o","r","y"," ","a","l","l","o",
    "c","a","t","i","o","n"," ","f","a","i","l","e","d">>

\* "Compilation successful! AMX file size: "
MsgSuccessHead ==
  <<"C","o","m","p","i","l","a","t","i","o","n"," ","s","u","c","c","e","s",
    "s","f","u","l","!"," ","A","M","X"," ","f","i","l","e"," ","s","i","z",
    "e",":"," ">>

\* " bytes\n"
MsgSuccessTail ==
  <<" ","b","y","t","e","s","\n">>

\* "Compilation completed but AMX file not found\n"
MsgNotFound ==
  <<"C","o","m","p","i","l","a","t","i","o","n"," ","c","o","m","p","l","e",
    "t","e","d"," ","b","u","t"," ","A","M","X"," ","f","i","l","e"," ","n",
    "o","t"," ","f","o","u","n","d","\n">>

\* "Compilation failed with error code: "
MsgFailedHead ==
  <<"C","o","m","p","i","l","a","t","i","o","n"," ","f","a","i","l","e","d",
    " ","w","i","t","h"," ","e","r","r","o","r"," ","c","o","d","e",":"," ">>

\* "\n"
MsgFailedTail ==
  <<"\n">>

\* "Compilation successful"
MarkSuccess ==
  <<"C","o","m","p","i","l","a","t","i","o","n"," ","s","u","c","c","e","s",
    "s","f","u","l">>

\* "AMX file size: "
MarkSizeHead ==
  <<"A","M","X"," ","f","i","l","e"," ","s","i","z","e",":"," ">>

\* " bytes"
MarkSizeTail ==
  <<" ","b","y","t","e","s">>

\* "error"
MarkError ==
  <<"e","r","r","o","r">>

\* "warning"
MarkWarning ==
  <<"w","a","r","n","i","n","g">>

\* ":"
MarkColon ==
  <<":">>

\* "RuntimeError: unreachable"
TextAborted ==
  <<"R","u","n","t","i","m","e","E","r","r","o","r",":"," ","u","n","r","e",
    "a","c","h","a","b","l","e">>

\* "TypeError: bad pointer"
TextBadPointer ==
  <<"T","y","p","e","E","r","r","o","r",":"," ","b","a","d"," ","p","o","i",
    "n","t","e","r">>

\* "Compiler not initialized. Call initCompiler() first."
ErrNotInitialized ==
  <<"C","o","m","p","i","l","e","r"," ","n","o","t"," ","i","n","i","t","i",
    "a","l","i","z","e","d","."," ","C","a","l","l"," ","i","n","i","t","C",
    "o","m","p","i","l","e","r","(",")"," ","f","i","r","s","t",".">>

\* "Compiler not initialized."
ErrNotInitializedShort ==
  <<"C","o","m","p","i","l","e","r"," ","n","o","t"," ","i","n","i","t","i",
    "a","l","i","z","e","d",".">>

(***************************************************************************)
(* Text helpers.                                                           *)
(***************************************************************************)
Digits == <<"0","1","2","3","4","5","6","7","8","9">>

IsDigit(ch) == \E i \in 1..10 : Digits[i] = ch

DigitValue(ch) == (CHOOSE i \in 1..10 : Digits[i] = ch) - 1

\* printf("%ld") / printf("%d") of a non-negative number.
RECURSIVE ToDecimal(_)
ToDecimal(n) ==
  IF n < 10 THEN <<Digits[n + 1]>>
  ELSE ToDecimal(n \div 10) \o <<Digits[(n % 10) + 1]>>

\* A conversion that reads the first digit only.
ParseIntFirstDigit(ds) == IF ds = <<>> THEN 0 ELSE DigitValue(ds[1])

\* parseInt(text, 10) of a run of decimal digits.
RECURSIVE ParseInt(_)
ParseInt(ds) ==
  IF ds = <<>> THEN 0
  ELSE 10 * ParseInt(SubSeq(ds, 1, Len(ds) - 1)) + DigitValue(ds[Len(ds)])

\* Whether sub occurs in s starting at position i.
MatchesAt(s, sub, i) ==
  /\ i >= 1
  /\ i + Len(sub) - 1 <= Len(s)
  /\ \A k \in 1..Len(sub) : s[i + k - 1] = sub[k]

\* String.prototype.includes
Includes(s, sub) == \E i \in 1..(Len(s) + 1) : MatchesAt(s, sub, i)

\* String.prototype.split('\n')
RECURSIVE SplitLines(_)
SplitLines(s) ==
  IF \A i \in 1..Len(s) : s[i] # "\n" THEN <<s>>
  ELSE LET i == CHOOSE j \in 1..Len(s) :
                  /\ s[j] = "\n"
                  /\ \A k \in 1..(j - 1) : s[k] # "\n"
       IN <<SubSeq(s, 1, i - 1)>> \o SplitLines(SubSeq(s, i + 1, Len(s)))

IsSpace(ch) == ch \in {" ", "\n", "\t", "\r"}

\* String.prototype.trim
RECURSIVE Trim(_)
Trim(s) ==
  IF s = <<>> THEN s
  ELSE IF IsSpace(s[1]) THEN Trim(Tail(s))
  ELSE IF IsSpace(s[Len(s)]) THEN Trim(SubSeq(s, 1, Len(s) - 1))
  ELSE s

\* Array.prototype.join(' ')
RECURSIVE JoinSpace(_)
JoinSpace(ts) ==
  IF ts = <<>> THEN <<>>
  ELSE IF Len(ts) = 1 THEN ts[1]
  ELSE ts[1] \o <<" ">> \o JoinSpace(Tail(ts))

\* The end of the run of digits of s that starts at position i (i - 1 when
\* s[i] is no digit).
RECURSIVE DigitsEnd(_, _)
DigitsEnd(s, i) ==
  IF i <= Len(s) /\ IsDigit(s[i]) THEN DigitsEnd(s, i + 1) ELSE i - 1

\* line.match(/AMX file size: (\d+) bytes/): the positions where the pattern
\* matches. \d+ is greedy and the text after it starts with a space, so the
\* digits matched are the whole run of digits after the head.
SizeMatches(line) ==
  {i \in 1..Len(line) :
     /\ MatchesAt(line, MarkSizeHead, i)
     /\ DigitsEnd(line, i + Len(MarkSizeHead)) >= i + Len(MarkSizeHead)
     /\ MatchesAt(line, MarkSizeTail,
                  DigitsEnd(line, i + Len(MarkSizeHead)) + 1)}

\* The first capture group of the leftmost match.
SizeCapture(line) ==
  LET i == CHOOSE j \in SizeMatches(line) :
             \A k \in SizeMatches(line) : j <= k
      from == i + Len(MarkSizeHead)
  IN SubSeq(line, from, DigitsEnd(line, from))

\* An optional value: absent (null, undefined) or present.
Absent == <<>>

Some(v) == <<v>>

(***************************************************************************)
(* parseCompilerOutput                                                     *)
(***************************************************************************)
\* A classification that takes a line with both words for an error only.
RECURSIVE TrimmedLinesExclusive(_, _, _)
TrimmedLinesExclusive(lines, a, b) ==
  IF lines = <<>> THEN <<>>
  ELSE (IF /\ Includes(lines[1], a)
           /\ Includes(lines[1], b)
           /\ (a = MarkError \/ ~Includes(lines[1], MarkError))
        THEN <<Trim(lines[1])>> ELSE <<>>)
       \o TrimmedLinesExclusive(Tail(lines), a, b)

\* The lines that include both a and b, trimmed, in line order.
RECURSIVE TrimmedLinesWith(_, _, _)
TrimmedLinesWith(lines, a, b) ==
  IF lines = <<>> THEN <<>>
  ELSE (IF Includes(lines[1], a) /\ Includes(lines[1], b)
        THEN <<Trim(lines[1])>> ELSE <<>>)
       \o TrimmedLinesWith(Tail(lines), a, b)

\* A size taken from any line that has one, marker or not.
RECURSIVE AmxSizeAnyLine(_, _)
AmxSizeAnyLine(lines, n) ==
  IF n = 0 THEN Absent
  ELSE IF SizeMatches(lines[n]) # {}
       THEN Some(ParseInt(SizeCapture(lines[n])))
       ELSE AmxSizeAnyLine(lines, n - 1)

\* amxSize after the loop over the first n lines.
RECURSIVE AmxSizeAfter(_, _)
AmxSizeAfter(lines, n) ==
  IF n = 0 THEN Absent
  ELSE IF Includes(lines[n], MarkSuccess) /\ SizeMatches(lines[n]) # {}
       THEN Some(ParseInt(SizeCapture(lines[n])))
       ELSE AmxSizeAfter(lines, n - 1)

\* A parser that takes every line with a colon for an error.
parseCompilerOutputAnyColon(output) ==
  LET lines == SplitLines(output)
  IN [success  |-> \E i \in 1..Len(lines) : Includes(lines[i], MarkSuccess),
      output   |-> output,
      errors   |-> TrimmedLinesWith(lines, MarkColon, MarkColon),
      warnings |-> TrimmedLinesWith(lines, MarkWarning, MarkColon),
      amxSize  |-> AmxSizeAfter(lines, Len(lines))]

parseCompilerOutput(output) ==
  LET lines == SplitLines(output)
  IN [success  |-> \E i \in 1..Len(lines) : Includes(lines[i], MarkSuccess),
      output   |-> output,
      errors   |-> TrimmedLinesWith(lines, MarkError, MarkColon),
      warnings |-> TrimmedLinesWith(lines, MarkWarning, MarkColon),
      amxSize  |-> AmxSizeAfter(lines, Len(lines))]

(***************************************************************************)
(* The module's private filesystem (Emscripten FS): a function from the    *)
(* paths that exist to their nodes. A path is its sequence of segments.    *)
(***************************************************************************)
PathInput == <<"input.pwn">>
PathOutput == <<"output.amx">>
PathLog == <<"output.txt">>
PathInclude == <<"include">>

DirNode == [kind |-> "dir"]
FileNode(data) == [kind |-> "file", data |-> data]

\* The filesystem of a fresh module instance.
EmptyFS == [p \in {} |-> DirNode]

Parent(p) == SubSeq(p, 1, Len(p) - 1)

\* FS.analyzePath(p).exists
Exists(f, p) == p \in DOMAIN f

IsDir(f, p) == Exists(f, p) /\ f[p].kind = "dir"

\* The error of an operation that needs p's parent to be a directory.
ParentError(f, p) ==
  IF Len(p) = 1 \/ IsDir(f, Parent(p)) THEN "none"
  ELSE IF Exists(f, Parent(p)) THEN "ENOTDIR"
  ELSE "ENOENT"

Put(f, p, node) == [q \in DOMAIN f \cup {p} |-> IF q = p THEN node ELSE f[q]]

Without(f, p) == [q \in DOMAIN f \ {p} |-> f[q]]

\* FS.mkdir(p)
FSMkdir(f, p) ==
  IF ParentError(f, p) # "none" THEN [err |-> ParentError(f, p), fs |-> f]
  ELSE IF Exists(f, p) THEN [err |-> "EEXIST", fs |-> f]
  ELSE [err |-> "none", fs |-> Put(f, p, DirNode)]

\* FS.unlink(p)
FSUnlink(f, p) ==
  IF ParentError(f, p) # "none" THEN [err |-> ParentError(f, p), fs |-> f]
  ELSE IF ~Exists(f, p) THEN [err |-> "ENOENT", fs |-> f]
  ELSE IF IsDir(f, p) THEN [err |-> "EISDIR", fs |-> f]
  ELSE [err |-> "none", fs |-> Without(f, p)]

\* Writing data at the start of a file that holds old: the bytes of old
\* beyond the written ones stay.
WriteAt(old, data) ==
  data \o (IF Len(old) > Len(data)
           THEN SubSeq(old, Len(data) + 1, Len(old)) ELSE <<>>)

\* FS.writeFile(p, data), fopen(p, "w") + fprintf: create or truncate, then
\* write from the start.
FSWriteFile(f, p, data) ==
  IF ParentError(f, p) # "none" THEN [err |-> ParentError(f, p), fs |-> f]
  ELSE IF IsDir(f, p) THEN [err |-> "EISDIR", fs |-> f]
  ELSE [err |-> "none", fs |-> Put(f, p, FileNode(WriteAt(<<>>, data)))]

(***************************************************************************)
(* Inputs of the model.                                                    *)
(***************************************************************************)
Callers == 1..NumCallers

\* The callers of initCompiler() where the waiter queue is examined.
InitCallers == 1..NumInitCallers

\* The source text caller k passes to compile(): "new v=<k>;". Each caller
\* compiles a text of its own, so that an artifact tells whose compile made it.
SourceText(k) == <<"n","e","w"," ","v","=">> \o ToDecimal(k) \o <<";">>

\* The artifact the opaque compiler derives from caller k's source: 10 * k
\* bytes, each standing for one that depends on the source. The compiler is a
\* function of its input, so one source has one artifact.
ArtifactOf(k) == [i \in 1..(10 * k) |-> k]

\* Include file names (split on '/') and contents.
IncludeNames == {<<"a">>, <<"b">>, <<"a", "b">>}

\* The same with a name two directories deep.
DeepNames == IncludeNames \cup {<<"a", "b", "c">>}

Contents == {[i \in 1..n |-> b] : n \in 0..MaxContentLen, b \in 1..2}

\* The lists addIncludeFiles is called with: up to MaxFiles entries, each a
\* name with a one-byte content.
ShortContents == {content \in Contents : Len(content) = 1}

FileEntries ==
  {[filename |-> n, content |-> t] : n \in IncludeNames, t \in ShortContents}

FileLists == UNION {[1..n -> FileEntries] : n \in 0..MaxFiles}

\* The raw outputs parseCompilerOutput is applied to: up to MaxLines lines,
\* each made of up to MaxPieces pieces, the pieces being the texts the
\* parser looks for and white space; and the two outputs the contract works.
OutputPieces ==
  {MarkSuccess, MarkSizeHead \o ToDecimal(12) \o MarkSizeTail, MarkError,
   MarkWarning, <<":">>, <<" ">>}

RECURSIVE LinesOf(_)
LinesOf(n) ==
  IF n = 0 THEN {<<>>}
  ELSE LinesOf(n - 1)
       \cup {line \o piece : line \in LinesOf(n - 1), piece \in OutputPieces}

RECURSIVE OutputsOf(_)
OutputsOf(n) ==
  IF n = 1 THEN LinesOf(MaxPieces)
  ELSE OutputsOf(n - 1)
       \cup {output \o <<"\n">> \o line :
               output \in OutputsOf(n - 1), line \in LinesOf(MaxPieces)}

OutputWithSize ==
  <<"C", "o", "m", "p", "i", "l", "a", "t", "i", "o", "n", " ", "s", "u",
    "c", "c", "e", "s", "s", "f", "u", "l", "!", " ", "A", "M", "X", " ",
    "f", "i", "l", "e", " ", "s", "i", "z", "e", ":", " ", "4", "0", "9",
    "6", " ", "b", "y", "t", "e", "s">> \o <<"\n">>

OutputWithError ==
  <<"i", "n", "p", "u", "t", ".", "p", "w", "n", "(", "3", ")", " ", ":",
    " ", "e", "r", "r", "o", "r", " ", "0", "1", "7", ":", " ", "u", "n",
    "d", "e", "f", "i", "n", "e", "d", " ", "s", "y", "m", "b", "o", "l">>

RawOutputs == OutputsOf(MaxLines) \cup {OutputWithSize, OutputWithError}

\* The positional argument pawncl_compile adds for the source file.
ArgInput == <<"/", "i", "n", "p", "u", "t", ".", "p", "w", "n">>

\* The options compile() is called with: each level absent or a number, the
\* additional flags absent or a list of texts.
FlagO == <<"-", "O">>
FlagD == <<"-", "d">>
FlagInclude == <<"-", "i", "/", "i", "n", "c", "l", "u", "d", "e">>
FlagTexts == {<<"-", "Z", "+">>, <<"-", ";">>, <<>>}

\* A flag of two characters, and a flag that holds a space.
FlagShort == <<"-", "a">>
FlagSpaced == <<"-", "i", "/", "a", " ", "b">>

Levels == {Absent} \cup {Some(n) : n \in 0..MaxLevel}

OptionSets ==
  {[optimizationLevel |-> o, debugLevel |-> d, additionalFlags |-> a] :
     o \in Levels, d \in Levels,
     a \in {Absent}
            \cup {Some(flags) :
                    flags \in UNION {[1..n -> FlagTexts] : n \in 0..MaxFlags}}}

\* Options with a long list of additional flags, or with a flag that holds
\* a space.
LongOptionSets ==
  {[optimizationLevel |-> Absent, debugLevel |-> Absent,
    additionalFlags |-> Some(flags)] :
     flags \in {[i \in 1..n |-> FlagShort] : n \in 0..MaxTokens}
               \cup {<<FlagSpaced>>, <<FlagShort, FlagSpaced>>}}

\* The options strings pawncl_compile is called with by a host that calls
\* the exported function itself: NULL, or n flags with a space between.
RECURSIVE Repeated(_, _)
Repeated(flag, n) ==
  IF n = 0 THEN <<>> ELSE <<flag>> \o Repeated(flag, n - 1)

(***************************************************************************)
(* The argument vector of pawncl_compile.                                  *)
(***************************************************************************)
\* "pawncc"
ArgProgram == <<"p", "a", "w", "n", "c", "c">>

\* "-o/output.amx"
ArgOutput ==
  <<"-", "o", "/", "o", "u", "t", "p", "u", "t", ".", "a", "m", "x">>

\* The bound of the token loop: a token is taken while argc < 30.
ArgcLimit == 30

\* The index of argv the loop that frees the tokens starts from.
FreeFrom == 3

\* strtok(s, " ") called until it returns NULL, from position i on: the
\* runs of characters other than ' ', in order. cur is the run being read.
RECURSIVE Strtok(_, _, _)
Strtok(s, i, cur) ==
  IF i > Len(s) THEN (IF cur = <<>> THEN <<>> ELSE <<cur>>)
  ELSE IF s[i] = " "
  THEN (IF cur = <<>> THEN <<>> ELSE <<cur>>) \o Strtok(s, i + 1, <<>>)
  ELSE Strtok(s, i + 1, Append(cur, s[i]))

\* The while loop: argv[argc++] = strdup(token) while there is a token and
\* argc < 30. An element of argv is its text and whether it is on the heap.
RECURSIVE TakeTokens(_, _, _)
TakeTokens(tokens, i, argv) ==
  IF i <= Len(tokens) /\ Len(argv) < ArgcLimit
  THEN TakeTokens(tokens, i + 1,
                  Append(argv, [text |-> tokens[i], heap |-> TRUE]))
  ELSE argv

\* for (i = 3; i < argc - 1; i++) free(argv[i]): the indexes freed, from i on.
RECURSIVE FreeLoop(_, _)
FreeLoop(i, argc) ==
  IF i < argc - 1 THEN <<i>> \o FreeLoop(i + 1, argc) ELSE <<>>

\* The argument vector pawncl_compile builds from its options string (Absent:
\* NULL) and hands to pc_compile, and the indexes of argv (from 0) it passes
\* to free before it returns its result message.
BuildArgv(options) ==
  LET fixed == <<[text |-> ArgProgram, heap |-> FALSE],
                 [text |-> ArgOutput, heap |-> FALSE]>>
      taken == IF options # Absent /\ Len(options[1]) > 0
               THEN TakeTokens(Strtok(options[1], 1, <<>>), 1, fixed)
               ELSE fixed
      argv == Append(taken, [text |-> ArgInput, heap |-> FALSE])
  IN [argv |-> argv, argc |-> Len(argv), freed |-> FreeLoop(FreeFrom, Len(argv))]

(***************************************************************************)
(* The opaque compiler, pc_compile: its exit code and what it does to      *)
(* /output.amx. It writes an artifact only when it returns 0.              *)
(***************************************************************************)
PcOutcomes ==
  {[rc |-> 0, out |-> "written"]}
  \cup {[rc |-> r, out |-> o] : r \in 0..MaxExitCode, o \in {"kept", "removed"}}

\* The filesystem after pc_compile(argc, argv) of source k.
PcCompile(f, k, pc) ==
  IF pc.out = "written" THEN Put(f, PathOutput, FileNode(ArtifactOf(k)))
  ELSE IF pc.out = "removed" /\ Exists(f, PathOutput) THEN Without(f, PathOutput)
  ELSE f

(***************************************************************************)
(* pawncl_compile: the result message and the filesystem it leaves.        *)
(* env.fopen: whether /input.pwn can be created; env.pc: the compiler's    *)
(* outcome; env.malloc: whether the result buffer can be allocated.        *)
(* k is the caller whose source text is compiled.                          *)
(***************************************************************************)
\* env.fault is what goes wrong at the boundary: nothing ("none"); the ccall
\* of pawncl_compile throws before the C function runs ("call"); the module
\* aborts inside the compiler ("abort"); UTF8ToString throws ("string"); the
\* ccall of pawncl_free throws ("free"). Of the combinations that lead to the
\* same result and the same filesystem one is kept: the exit code is not read
\* when the allocation fails or the message is never converted, and the
\* allocation's failure is not seen when the message is never converted.
NoPc == [rc |-> 0, out |-> "kept"]

PcEffects == {pc \in PcOutcomes : pc.rc = 0}

CompileEnvs ==
  {[fault |-> f, fopen |-> TRUE, pc |-> NoPc, malloc |-> TRUE] :
     f \in {"call", "abort"}}
  \cup {[fault |-> f, fopen |-> FALSE, pc |-> NoPc, malloc |-> TRUE] :
          f \in {"none", "string", "free"}}
  \cup {[fault |-> "none", fopen |-> TRUE, pc |-> p, malloc |-> TRUE] :
          p \in PcOutcomes}
  \cup {[fault |-> "none", fopen |-> TRUE, pc |-> p, malloc |-> FALSE] :
          p \in PcEffects}
  \cup {[fault |-> f, fopen |-> TRUE, pc |-> p, malloc |-> TRUE] :
          f \in {"string", "free"}, p \in PcEffects}

\* fseek(SEEK_END) + ftell
FileSize(f, p) == Len(f[p].data)

pawncl_compile(f, k, env) ==
  IF ~env.fopen \/ FSWriteFile(f, PathInput, SourceText(k)).err # "none"
  THEN [msg |-> MsgNoInputFile, fs |-> f]
  ELSE LET written == FSWriteFile(f, PathInput, SourceText(k)).fs
           after == PcCompile(written, k, env.pc)
       IN IF ~env.malloc THEN [msg |-> MsgAllocFailed, fs |-> after]
          ELSE IF env.pc.rc = 0
          THEN IF Exists(after, PathOutput) /\ ~IsDir(after, PathOutput)
               THEN [msg |-> MsgSuccessHead
                             \o ToDecimal(FileSize(after, PathOutput))
                             \o MsgSuccessTail,
                     fs |-> after]
               ELSE [msg |-> MsgNotFound, fs |-> after]
          ELSE [msg |-> MsgFailedHead \o ToDecimal(env.pc.rc) \o MsgFailedTail,
                fs |-> after]

(***************************************************************************)
(* State of the wrapper.                                                   *)
(***************************************************************************)
VARIABLES
  compilerModule,   \* 0: null; k: the k-th instance createPawnCompiler made
  compilerReady,    \* the flag compilerReady
  readyCallbacks,   \* the callers whose resolve callback is queued, in order
  initPc,           \* where each caller's initCompiler() call is: "idle" (no
                    \* call pending), "importing", "instantiating", "queued"
  fs,               \* the filesystem of the instance compilerModule holds
  produced,         \* whether a compile has written /output.amx in this run
  mine,             \* whether each caller's last call, getCompiledAMX aside,
                    \* was a compile that wrote an artifact and succeeded
  ret,              \* what the last synchronous operation did and returned;
                    \* caller is kept for the calls whose caller a property
                    \* reads, and 0 otherwise
  load,             \* the loadIncludeFiles call in flight: its caller (0:
                    \* none) and, per file name, where its async callback is
  compiling,        \* where each caller's compile() call is, where the steps
                    \* of compile() are examined one by one: "idle" (no call
                    \* running), "called", "written", "ran", "built"
  arg               \* the argument a function of the wrapper is applied to,
                    \* where a function is examined by itself

vars ==
  <<compilerModule, compilerReady, readyCallbacks, initPc, fs, produced,
    mine, ret, load, compiling, arg>>

\* A call that has not happened.
NoCall ==
  [op |-> "none", caller |-> 0, threw |-> FALSE, value |-> Absent,
   ccalls |-> <<>>, fault |-> "none"]

\* No loadIncludeFiles call in flight.
NoLoad == [caller |-> 0, files |-> <<>>]

\* No compile() call running for a caller.
NotCompiling == [at |-> "idle", rc |-> 0, msg |-> <<>>, wrote |-> FALSE]

Init ==
  /\ compilerModule = 0
  /\ compilerReady = FALSE
  /\ readyCallbacks = <<>>
  /\ initPc = [c \in Callers |-> "idle"]
  /\ fs = EmptyFS
  /\ produced = FALSE
  /\ mine = [c \in Callers |-> FALSE]
  /\ ret = NoCall
  /\ load = NoLoad
  /\ compiling = [c \in Callers |-> NotCompiling]
  /\ arg = Absent

(***************************************************************************)
(* initCompiler                                                            *)
(***************************************************************************)
\* What an initCompiler() call that returns at once leaves in ret.
InitReturned ==
  [op |-> "initCompiler", caller |-> 0, threw |-> FALSE, value |-> Absent,
   ccalls |-> <<>>, fault |-> "none"]

\* A call that does not test compilerReady first.
InitCallNoReadyCheck(c) ==
  /\ initPc[c] = "idle"
  /\ IF compilerModule # 0
     THEN /\ readyCallbacks' = Append(readyCallbacks, c)
          /\ initPc' = [initPc EXCEPT ![c] = "queued"]
     ELSE /\ initPc' = [initPc EXCEPT ![c] = "importing"]
          /\ UNCHANGED readyCallbacks
  /\ UNCHANGED <<arg, load, compiling, compilerModule, compilerReady, fs, produced,
                 mine, ret>>

\* The call up to its first await: return, queue, or start the import.
InitCall(c) ==
  /\ initPc[c] = "idle"
  /\ IF compilerReady
     THEN /\ ret' = InitReturned
          /\ UNCHANGED <<initPc, readyCallbacks>>
     ELSE IF compilerModule # 0
     THEN /\ readyCallbacks' = Append(readyCallbacks, c)
          /\ initPc' = [initPc EXCEPT ![c] = "queued"]
          /\ UNCHANGED ret
     ELSE /\ initPc' = [initPc EXCEPT ![c] = "importing"]
          /\ UNCHANGED <<readyCallbacks, ret>>
  /\ UNCHANGED <<arg, load, compiling, compilerModule, compilerReady, fs, produced,
                 mine>>

\* await import('../../dist/pawnc.js') settles.
ImportDone(c, ok) ==
  /\ initPc[c] = "importing"
  /\ initPc' = [initPc EXCEPT ![c] = IF ok THEN "instantiating" ELSE "idle"]
  /\ UNCHANGED <<arg, load, compiling, compilerModule, compilerReady, readyCallbacks, fs, produced,
                 mine, ret>>

\* The callers after readyCallbacks.forEach(cb => cb()) and c's own return:
\* the promises of c and of every queued caller are resolved.
Resolved(pcs, queue, c) ==
  [d \in DOMAIN pcs |->
     IF d = c \/ (\E i \in 1..Len(queue) : queue[i] = d) THEN "idle"
     ELSE pcs[d]]

\* A forEach that calls the callbacks from the last one to the first.
RECURSIVE ForEachBackwards(_, _)
ForEachBackwards(queue, i) ==
  IF i > Len(queue) THEN <<>>
  ELSE ForEachBackwards(queue, i + 1) \o <<queue[i]>>

\* readyCallbacks.forEach(cb => cb()) from entry i on: the callers whose
\* callback is called, in the order of the calls.
RECURSIVE ForEach(_, _)
ForEach(queue, i) ==
  IF i > Len(queue) THEN <<>>
  ELSE <<queue[i]>> \o ForEach(queue, i + 1)

\* What the synchronous end of a successful initialization leaves in ret: the
\* callers it resumed, in order.
InitResolved(called) ==
  [op |-> "resolve", caller |-> 0, threw |-> FALSE, value |-> called,
   ccalls |-> <<>>, fault |-> "none"]

\* await createPawnCompiler(...) settles; on success the rest of the try
\* block runs without suspension.
InstantiateDone(c, ok, mkdirOk) ==
  /\ initPc[c] = "instantiating"
  /\ IF ~ok
     THEN /\ initPc' = [initPc EXCEPT ![c] = "idle"]
          /\ UNCHANGED <<arg, load, compiling, compilerModule, compilerReady, readyCallbacks, fs,
                         ret>>
     ELSE /\ compilerModule' = compilerModule + 1
          /\ IF mkdirOk /\ FSMkdir(EmptyFS, PathInclude).err = "none"
             THEN /\ fs' = FSMkdir(EmptyFS, PathInclude).fs
                  /\ compilerReady' = TRUE
                  /\ initPc' = Resolved(initPc, readyCallbacks, c)
                  /\ ret' = InitResolved(ForEach(readyCallbacks, 1))
                  /\ readyCallbacks' = <<>>
             ELSE /\ fs' = EmptyFS
                  /\ initPc' = [initPc EXCEPT ![c] = "idle"]
                  /\ UNCHANGED <<compilerReady, readyCallbacks, ret>>
  /\ UNCHANGED <<arg, load, compiling, produced, mine>>

(***************************************************************************)
(* compile                                                                 *)
(***************************************************************************)
\* Flags built with tests of truthiness: a level of 0 adds no flag.
MarshalTruthy(options) ==
  JoinSpace(
    (IF options.optimizationLevel # Absent /\ options.optimizationLevel[1] # 0
     THEN <<FlagO \o ToDecimal(options.optimizationLevel[1])>> ELSE <<>>)
    \o (IF options.debugLevel # Absent /\ options.debugLevel[1] # 0
        THEN <<FlagD \o ToDecimal(options.debugLevel[1])>> ELSE <<>>)
    \o <<FlagInclude>>
    \o (IF options.additionalFlags # Absent
        THEN options.additionalFlags[1] ELSE <<>>))

\* optionsArray: the flags compile() builds, one entry per flag.
OptionsArray(options) ==
  (IF options.optimizationLevel # Absent
   THEN <<FlagO \o ToDecimal(options.optimizationLevel[1])>> ELSE <<>>)
  \o (IF options.debugLevel # Absent
      THEN <<FlagD \o ToDecimal(options.debugLevel[1])>> ELSE <<>>)
  \o <<FlagInclude>>
  \o (IF options.additionalFlags # Absent
      THEN options.additionalFlags[1] ELSE <<>>)

\* optionsArray joined: the string of flags compile() passes to
\* pawncl_compile.
Marshal(options) == JoinSpace(OptionsArray(options))

\* The flags of compile() built from the options in arg.
MarshalStep ==
  /\ arg # Absent
  /\ ret.op = "none"
  /\ ret' = [op |-> "marshal", caller |-> 0, threw |-> FALSE,
             value |-> Marshal(arg[1]), ccalls |-> <<>>, fault |-> "none"]
  /\ UNCHANGED <<arg, load, compiling, compilerModule, compilerReady, readyCallbacks,
                 initPc, fs, produced, mine>>

\* The argument vector pawncl_compile builds for the call in arg: the options
\* of a compile() call, marshaled, or an options string handed to
\* pawncl_compile directly.
ArgvStep ==
  /\ arg # Absent
  /\ ret.op = "none"
  /\ ret' = [op |-> "argv", caller |-> 0, threw |-> FALSE,
             value |-> BuildArgv(IF arg[1].options # Absent
                                 THEN Some(Marshal(arg[1].options[1]))
                                 ELSE arg[1].text),
             ccalls |-> <<>>, fault |-> "none"]
  /\ UNCHANGED <<arg, load, compiling, compilerModule, compilerReady,
                 readyCallbacks, initPc, fs, produced, mine>>

\* parseCompilerOutput applied to the raw output in arg.
ParseStep ==
  /\ arg # Absent
  /\ ret.op = "none"
  /\ ret' = [op |-> "parse", caller |-> 0, threw |-> FALSE,
             value |-> parseCompilerOutput(arg[1]), ccalls |-> <<>>,
             fault |-> "none"]
  /\ UNCHANGED <<arg, load, compiling, compilerModule, compilerReady, readyCallbacks,
                 initPc, fs, produced, mine>>

\* String(error) of what is thrown at the boundary.
FaultText(fault) ==
  IF fault \in {"call", "abort"} THEN TextAborted ELSE TextBadPointer

\* A catch block that reports the failure text but leaves errors empty.
FailureResultNoErrors(text) ==
  [success |-> FALSE, output |-> text, errors |-> <<>>,
   warnings |-> <<>>, amxSize |-> Absent]

\* The catch block's result.
FailureResult(text) ==
  [success |-> FALSE, output |-> text, errors |-> <<text>>,
   warnings |-> <<>>, amxSize |-> Absent]

\* parseCompilerOutput on the messages pawncl_compile builds in the model,
\* computed once.
CompilerMessages ==
  {MsgNoInputFile, MsgAllocFailed, MsgNotFound}
  \cup {MsgSuccessHead \o ToDecimal(Len(ArtifactOf(k))) \o MsgSuccessTail :
          k \in Callers}
  \cup {MsgFailedHead \o ToDecimal(r) \o MsgFailedTail : r \in 1..MaxExitCode}

ParsedMessage == [m \in CompilerMessages |-> parseCompilerOutput(m)]

\* The try block of compile() for caller k's source: the value returned, the
\* filesystem left, the boundary functions called and whether the compiler
\* wrote an artifact.
CompileCall(f, k, env) ==
  LET run == pawncl_compile(f, k, env)
      wrote == run.msg # MsgNoInputFile /\ env.pc.out = "written"
  IN IF env.fault = "call"
     THEN [value |-> FailureResult(FaultText(env.fault)), fs |-> f,
           ccalls |-> <<"pawncl_compile">>, wrote |-> FALSE]
     ELSE IF env.fault = "abort"
     THEN [value |-> FailureResult(FaultText(env.fault)),
           fs |-> FSWriteFile(f, PathInput, SourceText(k)).fs,
           ccalls |-> <<"pawncl_compile">>, wrote |-> FALSE]
     ELSE IF env.fault = "string"
     THEN [value |-> FailureResult(FaultText(env.fault)), fs |-> run.fs,
           ccalls |-> <<"pawncl_compile">>, wrote |-> wrote]
     ELSE IF env.fault = "free"
     THEN [value |-> FailureResult(FaultText(env.fault)), fs |-> run.fs,
           ccalls |-> <<"pawncl_compile", "pawncl_free">>, wrote |-> wrote]
     ELSE [value |-> ParsedMessage[run.msg], fs |-> run.fs,
           ccalls |-> <<"pawncl_compile", "pawncl_free">>, wrote |-> wrote]

\* A guard that tests the module handle alone.
CompileRefusedNoFlag == compilerModule = 0

\* The guard of compile(): the initialization-required error is thrown.
CompileRefused == ~compilerReady \/ compilerModule = 0

Compile(c, env) ==
  IF CompileRefused
  THEN /\ ret' = [op |-> "compile", caller |-> 0, threw |-> TRUE,
                  value |-> ErrNotInitialized, ccalls |-> <<>>,
                  fault |-> "none"]
       /\ mine' = [mine EXCEPT ![c] = FALSE]
       /\ UNCHANGED <<arg, load, compiling, compilerModule, compilerReady, readyCallbacks, initPc,
                      fs, produced>>
  ELSE LET call == CompileCall(fs, c, env)
       IN /\ ret' = [op |-> "compile", caller |-> 0, threw |-> FALSE,
                     value |-> call.value, ccalls |-> call.ccalls,
                     fault |-> env.fault]
          /\ fs' = call.fs
          /\ produced' = (produced \/ call.wrote)
          /\ mine' = [mine EXCEPT ![c] = call.value.success /\ call.wrote]
          /\ UNCHANGED <<arg, load, compiling, compilerModule, compilerReady, readyCallbacks, initPc>>

(***************************************************************************)
(* compile, step by step. compile() holds no await and ccall is made       *)
(* without the async option, so the host starts a call only when no call   *)
(* is running: the steps of a call follow each other with nothing between. *)
(***************************************************************************)
\* The callers whose compile() call is running.
OnStack == {c \in Callers : compiling[c].at # "idle"}

\* A compile() that could be started while another call is suspended inside
\* its own compile().
CompileStartSuspended(c) ==
  /\ compiling[c].at = "idle"
  /\ IF CompileRefused
     THEN /\ ret' = [op |-> "compile", caller |-> 0, threw |-> TRUE,
                     value |-> ErrNotInitialized, ccalls |-> <<>>,
                     fault |-> "none"]
          /\ UNCHANGED compiling
     ELSE /\ compiling' = [compiling EXCEPT ![c].at = "called"]
          /\ UNCHANGED ret
  /\ mine' = [mine EXCEPT ![c] = FALSE]
  /\ UNCHANGED <<arg, load, compilerModule, compilerReady, readyCallbacks,
                 initPc, fs, produced>>

\* compile() is called: the guard, and the flags built up to the boundary
\* call.
CompileStart(c) ==
  /\ OnStack = {}
  /\ IF CompileRefused
     THEN /\ ret' = [op |-> "compile", caller |-> 0, threw |-> TRUE,
                     value |-> ErrNotInitialized, ccalls |-> <<>>,
                     fault |-> "none"]
          /\ UNCHANGED compiling
     ELSE /\ compiling' = [compiling EXCEPT ![c].at = "called"]
          /\ UNCHANGED ret
  /\ mine' = [mine EXCEPT ![c] = FALSE]
  /\ UNCHANGED <<arg, load, compilerModule, compilerReady, readyCallbacks,
                 initPc, fs, produced>>

\* The catch block of compile() is reached from a step of the call.
CompileCaught(c, fault, called) ==
  /\ ret' = [op |-> "compile", caller |-> 0, threw |-> FALSE,
             value |-> FailureResult(FaultText(fault)), ccalls |-> called,
             fault |-> fault]
  /\ compiling' = [compiling EXCEPT ![c] = NotCompiling]

\* ccall('pawncl_compile') and the writing of /input.pwn. callOk: whether
\* the ccall reaches the C function; fopen: whether /input.pwn can be made.
WriteInput(c, callOk, fopen) ==
  /\ compiling[c].at = "called"
  /\ IF ~callOk
     THEN /\ CompileCaught(c, "call", <<"pawncl_compile">>)
          /\ UNCHANGED fs
     ELSE IF ~fopen \/ FSWriteFile(fs, PathInput, SourceText(c)).err # "none"
     THEN /\ compiling' = [compiling EXCEPT ![c].at = "built",
                                            ![c].msg = MsgNoInputFile]
          /\ UNCHANGED <<fs, ret>>
     ELSE /\ fs' = FSWriteFile(fs, PathInput, SourceText(c)).fs
          /\ compiling' = [compiling EXCEPT ![c].at = "written"]
          /\ UNCHANGED ret
  /\ UNCHANGED <<arg, load, compilerModule, compilerReady, readyCallbacks,
                 initPc, produced, mine>>

\* pc_compile(argc, argv) runs on /input.pwn. abort: the module aborts in it.
RunCompiler(c, pc, abort) ==
  /\ compiling[c].at = "written"
  /\ IF abort
     THEN /\ CompileCaught(c, "abort", <<"pawncl_compile">>)
          /\ UNCHANGED <<fs, produced>>
     ELSE /\ fs' = PcCompile(fs, c, pc)
          /\ compiling' = [compiling EXCEPT ![c].at = "ran", ![c].rc = pc.rc,
                                            ![c].wrote = (pc.out = "written")]
          /\ produced' = (produced \/ pc.out = "written")
          /\ UNCHANGED ret
  /\ UNCHANGED <<arg, load, compilerModule, compilerReady, readyCallbacks,
                 initPc, mine>>

\* The result message is built from the exit code and the size of
\* /output.amx. malloc: whether the buffer of the message can be allocated.
BuildResult(c, malloc) ==
  /\ compiling[c].at = "ran"
  /\ compiling' =
       [compiling EXCEPT
          ![c].at = "built",
          ![c].msg =
            IF ~malloc THEN MsgAllocFailed
            ELSE IF compiling[c].rc = 0
            THEN IF Exists(fs, PathOutput) /\ ~IsDir(fs, PathOutput)
                 THEN MsgSuccessHead \o ToDecimal(FileSize(fs, PathOutput))
                      \o MsgSuccessTail
                 ELSE MsgNotFound
            ELSE MsgFailedHead \o ToDecimal(compiling[c].rc)
                 \o MsgFailedTail]
  /\ UNCHANGED <<arg, load, compilerModule, compilerReady, readyCallbacks,
                 initPc, fs, produced, mine, ret>>

\* The message is converted, released and parsed, and compile() returns.
\* fault: "string" (UTF8ToString throws), "free" (the ccall of pawncl_free
\* throws) or "none".
CompileReturn(c, fault) ==
  /\ compiling[c].at = "built"
  /\ IF fault = "string"
     THEN CompileCaught(c, fault, <<"pawncl_compile">>)
     ELSE IF fault = "free"
     THEN CompileCaught(c, fault, <<"pawncl_compile", "pawncl_free">>)
     ELSE /\ ret' = [op |-> "compile", caller |-> 0, threw |-> FALSE,
                     value |-> ParsedMessage[compiling[c].msg],
                     ccalls |-> <<"pawncl_compile", "pawncl_free">>,
                     fault |-> "none"]
          /\ compiling' = [compiling EXCEPT ![c] = NotCompiling]
  /\ mine' = [mine EXCEPT ![c] = ret'.value.success /\ compiling[c].wrote]
  /\ UNCHANGED <<arg, load, compilerModule, compilerReady, readyCallbacks,
                 initPc, fs, produced>>

(***************************************************************************)
(* getCompiledAMX                                                          *)
(***************************************************************************)
\* A read that hands out an empty buffer for a file that does not exist.
GetResultEmpty(f, readOk) ==
  IF ~Exists(f, PathOutput) THEN Some(<<>>)
  ELSE IF readOk /\ ~IsDir(f, PathOutput) THEN Some(f[PathOutput].data)
  ELSE Absent

\* The try block of getCompiledAMX(). readOk: whether FS.readFile succeeds.
GetResult(f, readOk) ==
  IF ~Exists(f, PathOutput) THEN Absent
  ELSE IF readOk /\ ~IsDir(f, PathOutput) THEN Some(f[PathOutput].data)
  ELSE Absent

GetCompiledAMX(c, readOk) ==
  /\ ret' = IF compilerModule = 0
            THEN [op |-> "getCompiledAMX", caller |-> c, threw |-> TRUE,
                  value |-> ErrNotInitializedShort, ccalls |-> <<>>,
                  fault |-> "none"]
            ELSE [op |-> "getCompiledAMX", caller |-> c, threw |-> FALSE,
                  value |-> GetResult(fs, readOk), ccalls |-> <<>>,
                  fault |-> "none"]
  /\ UNCHANGED <<arg, load, compiling, compilerModule, compilerReady, readyCallbacks, initPc, fs,
                 produced, mine>>

(***************************************************************************)
(* addIncludeFile                                                          *)
(***************************************************************************)
\* A directory loop that ignores every failure of FS.mkdir.
RECURSIVE EnsureDirsIgnoreAll(_, _, _, _)
EnsureDirsIgnoreAll(f, parts, i, tried) ==
  IF i > Len(parts) - 1 THEN [err |-> "none", fs |-> f, tried |-> tried]
  ELSE EnsureDirsIgnoreAll(FSMkdir(f, PathInclude \o SubSeq(parts, 1, i)).fs,
                           parts, i + 1,
                           Append(tried, PathInclude \o SubSeq(parts, 1, i)))

\* The loop over parts[0 .. length - 2], from part i on: mkdir of every
\* directory prefix; a failure is ignored when it says the path exists or
\* when the path does exist, and thrown otherwise. tried lists the paths
\* FS.mkdir was called with, in call order.
RECURSIVE EnsureDirs(_, _, _, _)
EnsureDirs(f, parts, i, tried) ==
  IF i > Len(parts) - 1 THEN [err |-> "none", fs |-> f, tried |-> tried]
  ELSE LET currentPath == PathInclude \o SubSeq(parts, 1, i)
           made == FSMkdir(f, currentPath)
       IN IF made.err = "none" \/ made.err = "EEXIST"
             \/ Exists(f, currentPath)
          THEN EnsureDirs(made.fs, parts, i + 1, Append(tried, currentPath))
          ELSE [err |-> made.err, fs |-> f,
                tried |-> Append(tried, currentPath)]

\* A replace that appends to an existing file instead of replacing it.
ReplaceFileAppend(f, path, content) ==
  IF Exists(f, path) /\ ~IsDir(f, path)
  THEN FSWriteFile(f, path, f[path].data \o content)
  ELSE FSWriteFile(f, path, content)

\* The try block: unlink an existing file, then write the new one.
ReplaceFile(f, path, content) ==
  IF Exists(f, path) /\ FSUnlink(f, path).err # "none"
  THEN FSUnlink(f, path)
  ELSE FSWriteFile(IF Exists(f, path) THEN FSUnlink(f, path).fs ELSE f,
                   path, content)

\* addIncludeFile on a loaded module: the error thrown, if any, the
\* filesystem left, the mkdir calls made and the stage that threw ("mkdir":
\* the directory loop, "write": the try block around unlink and writeFile).
AddIncludeCall(f, filename, content) ==
  LET dirs == EnsureDirs(f, filename, 1, <<>>)
      put == ReplaceFile(dirs.fs, PathInclude \o filename, content)
  IN IF dirs.err # "none"
     THEN [err |-> dirs.err, fs |-> dirs.fs, tried |-> dirs.tried,
           stage |-> "mkdir"]
     ELSE [err |-> put.err, fs |-> put.fs, tried |-> dirs.tried,
           stage |-> IF put.err # "none" THEN "write" ELSE "none"]

\* The length of the file at path before the call, if there is one.
OldLength(f, path) ==
  IF Exists(f, path) /\ ~IsDir(f, path) THEN Some(Len(f[path].data))
  ELSE Absent

AddIncludeFile(c, filename, content) ==
  IF compilerModule = 0
  THEN /\ ret' = [op |-> "addIncludeFile", caller |-> 0, threw |-> TRUE,
                  value |-> [err |-> "uninitialized", path |-> filename,
                             old |-> Absent, tried |-> <<>>,
                             stage |-> "guard"],
                  ccalls |-> <<>>, fault |-> "none"]
       /\ mine' = [mine EXCEPT ![c] = FALSE]
       /\ UNCHANGED <<arg, load, compiling, compilerModule, compilerReady, readyCallbacks, initPc,
                      fs, produced>>
  ELSE LET call == AddIncludeCall(fs, filename, content)
       IN /\ ret' = [op |-> "addIncludeFile", caller |-> 0,
                     threw |-> call.err # "none",
                     value |-> [err |-> call.err, path |-> filename,
                                old |-> OldLength(fs, PathInclude \o filename),
                                tried |-> call.tried, stage |-> call.stage],
                     ccalls |-> <<>>, fault |-> "none"]
          /\ fs' = call.fs
          /\ mine' = [mine EXCEPT ![c] = FALSE]
          /\ UNCHANGED <<arg, load, compiling, compilerModule, compilerReady, readyCallbacks,
                         initPc, produced>>

(***************************************************************************)
(* addIncludeFiles                                                         *)
(***************************************************************************)
\* A loop that goes on with the next entry after an entry has thrown.
RECURSIVE StageAllSkipFailures(_, _, _)
StageAllSkipFailures(f, files, i) ==
  IF i > Len(files) THEN [err |-> "none", fs |-> f, failedAt |-> 0]
  ELSE LET call == AddIncludeCall(f, files[i].filename, files[i].content)
           rest == StageAllSkipFailures(call.fs, files, i + 1)
       IN IF call.err # "none"
          THEN [err |-> call.err, fs |-> rest.fs, failedAt |-> i]
          ELSE rest

\* The for-of loop from entry i on: addIncludeFile of each entry; the first
\* one that throws ends the loop and the call. failedAt is the index of the
\* entry that threw (0: none).
RECURSIVE StageAll(_, _, _)
StageAll(f, files, i) ==
  IF i > Len(files) THEN [err |-> "none", fs |-> f, failedAt |-> 0]
  ELSE LET call == AddIncludeCall(f, files[i].filename, files[i].content)
       IN IF call.err # "none"
          THEN [err |-> call.err, fs |-> call.fs, failedAt |-> i]
          ELSE StageAll(call.fs, files, i + 1)

\* addIncludeFiles: with no module loaded the first entry's addIncludeFile
\* throws; an empty list makes no call.
AddIncludeFilesCall(f, files) ==
  IF compilerModule # 0 THEN StageAll(f, files, 1)
  ELSE IF files = <<>> THEN [err |-> "none", fs |-> f, failedAt |-> 0]
  ELSE [err |-> "uninitialized", fs |-> f, failedAt |-> 1]

AddIncludeFiles(c, files) ==
  LET call == AddIncludeFilesCall(fs, files)
  IN /\ ret' = [op |-> "addIncludeFiles", caller |-> 0,
                threw |-> call.err # "none",
                value |-> [err |-> call.err, failedAt |-> call.failedAt,
                           names |-> [j \in 1..Len(files) |->
                                        files[j].filename]],
                ccalls |-> <<>>, fault |-> "none"]
     /\ fs' = call.fs
     /\ mine' = [mine EXCEPT ![c] = FALSE]
     /\ UNCHANGED <<arg, load, compiling, compilerModule, compilerReady, readyCallbacks, initPc,
                    produced>>

(***************************************************************************)
(* loadIncludeFiles. One call is in flight at a time. Each file name has   *)
(* an async callback of its own, which is at its fetch ("fetching"), at    *)
(* the read of the response body ("reading"), or settled: fulfilled        *)
(* ("staged") or rejected by the fetch ("fetchFailed"), by the body read   *)
(* ("readFailed") or by addIncludeFile ("stageFailed").                    *)
(***************************************************************************)
NameLists == UNION {[1..n -> IncludeNames] : n \in 0..MaxFiles}

Rejected == {"fetchFailed", "readFailed", "stageFailed"}

\* Every promise handed to Promise.allSettled has settled.
AllSettled(files) ==
  \A i \in DOMAIN files : files[i].st \in Rejected \cup {"staged"}

\* results.filter(r => r.status === 'rejected').length
FailedCount(files) ==
  Len(SelectSeq(files, LAMBDA file : file.st \in Rejected))

\* A fetch whose failure rejects every callback that has not settled yet.
AfterFetchFailFast(files, i, ok) ==
  [j \in DOMAIN files |->
     IF ok
     THEN (IF j = i THEN [files[j] EXCEPT !.st = "reading"] ELSE files[j])
     ELSE IF j = i \/ files[j].st \in {"fetching", "reading"}
     THEN [files[j] EXCEPT !.st = "fetchFailed"]
     ELSE files[j]]

\* The callbacks after the fetch of file i settles: a response that is ok
\* moves callback i on to the body read; a rejected fetch or a response that
\* is not ok rejects callback i.
AfterFetch(files, i, ok) ==
  [files EXCEPT ![i].st = IF ok THEN "reading" ELSE "fetchFailed"]

\* A call that resolves with the count of failures and logs nothing.
LoadOutcomeCount(failed) ==
  [returned |-> Some(failed), warned |-> Absent]

\* What the call gives after the await: the value its promise resolves with
\* (none) and the count console.warn is called with, if any.
LoadOutcome(failed) ==
  [returned |-> Absent,
   warned |-> IF failed > 0 THEN Some(failed) ELSE Absent]

\* The call up to its await: every callback runs up to its fetch.
LoadCall(c, filenames) ==
  /\ load.caller = 0
  /\ load' = [caller |-> c,
              files |-> [i \in DOMAIN filenames |->
                           [filename |-> filenames[i], st |-> "fetching"]]]
  /\ mine' = [mine EXCEPT ![c] = FALSE]
  /\ UNCHANGED <<arg, compiling, compilerModule, compilerReady, readyCallbacks, initPc, fs,
                 produced, ret>>

\* await fetch(...) of file i settles.
FetchDone(i, ok) ==
  /\ load.caller # 0
  /\ i \in DOMAIN load.files
  /\ load.files[i].st = "fetching"
  /\ load' = [load EXCEPT !.files = AfterFetch(load.files, i, ok)]
  /\ UNCHANGED <<arg, compiling, compilerModule, compilerReady, readyCallbacks, initPc, fs,
                 produced, mine, ret>>

\* await response.text() of file i settles; on success addIncludeFile runs
\* at once, and what it throws rejects callback i.
TextDone(i, ok, content) ==
  /\ load.caller # 0
  /\ i \in DOMAIN load.files
  /\ load.files[i].st = "reading"
  /\ IF ~ok
     THEN /\ load' = [load EXCEPT !.files[i].st = "readFailed"]
          /\ UNCHANGED fs
     ELSE IF compilerModule = 0
     THEN /\ load' = [load EXCEPT !.files[i].st = "stageFailed"]
          /\ UNCHANGED fs
     ELSE LET call == AddIncludeCall(fs, load.files[i].filename, content)
          IN /\ load' = [load EXCEPT !.files[i].st =
                           IF call.err = "none" THEN "staged"
                           ELSE "stageFailed"]
             /\ fs' = call.fs
  /\ UNCHANGED <<arg, compiling, compilerModule, compilerReady, readyCallbacks, initPc,
                 produced, mine, ret>>

\* await Promise.allSettled(...) resumes: the failures are counted and the
\* call returns.
LoadDone ==
  /\ load.caller # 0
  /\ AllSettled(load.files)
  /\ ret' = [op |-> "loadIncludeFiles", caller |-> 0, threw |-> FALSE,
             value |-> LoadOutcome(FailedCount(load.files)),
             ccalls |-> <<>>, fault |-> "none"]
  /\ load' = NoLoad
  /\ UNCHANGED <<arg, compiling, compilerModule, compilerReady, readyCallbacks, initPc, fs,
                 produced, mine>>

(***************************************************************************)
(* cleanup                                                                 *)
(***************************************************************************)
\* A list of files to remove that holds an include file as well.
CleanupFilesAndInclude ==
  <<PathInput, PathOutput, PathLog, PathInclude \o <<"a">>>>

CleanupFiles == <<PathInput, PathOutput, PathLog>>

\* A loop that ends after the first file it removes.
RECURSIVE CleanupFromOne(_, _, _)
CleanupFromOne(f, i, failing) ==
  IF i > Len(CleanupFiles) THEN [err |-> "none", fs |-> f]
  ELSE IF ~Exists(f, CleanupFiles[i]) THEN CleanupFromOne(f, i + 1, failing)
  ELSE IF i = failing THEN [err |-> "EIO", fs |-> f]
  ELSE FSUnlink(f, CleanupFiles[i])

\* The loop from file i on, inside one try block: failing is the index of a
\* file whose unlink throws (0: none). The first throw ends the loop.
RECURSIVE CleanupFrom(_, _, _)
CleanupFrom(f, i, failing) ==
  IF i > Len(CleanupFiles) THEN [err |-> "none", fs |-> f]
  ELSE IF ~Exists(f, CleanupFiles[i]) THEN CleanupFrom(f, i + 1, failing)
  ELSE IF i = failing THEN [err |-> "EIO", fs |-> f]
  ELSE IF FSUnlink(f, CleanupFiles[i]).err # "none"
  THEN FSUnlink(f, CleanupFiles[i])
  ELSE CleanupFrom(FSUnlink(f, CleanupFiles[i]).fs, i + 1, failing)

Cleanup(c, failing) ==
  IF compilerModule = 0
  THEN /\ ret' = [op |-> "cleanup", caller |-> 0, threw |-> FALSE,
                  value |-> [err |-> "none",
                             repeat |-> ret.op = "cleanup"],
                  ccalls |-> <<>>, fault |-> "none"]
       /\ mine' = [mine EXCEPT ![c] = FALSE]
       /\ UNCHANGED <<arg, load, compiling, compilerModule, compilerReady, readyCallbacks, initPc,
                      fs, produced>>
  ELSE LET call == CleanupFrom(fs, 1, failing)
       IN /\ ret' = [op |-> "cleanup", caller |-> 0, threw |-> FALSE,
                     value |-> [err |-> call.err,
                                repeat |-> ret.op = "cleanup"],
                     ccalls |-> <<>>, fault |-> "none"]
          /\ fs' = call.fs
          /\ mine' = [mine EXCEPT ![c] = FALSE]
          /\ UNCHANGED <<arg, load, compiling, compilerModule, compilerReady, readyCallbacks,
                         initPc, produced>>

(***************************************************************************)
(* The program: any caller may make any call at any time, and the awaits   *)
(* of initCompiler settle in any order. Spec is the wrapper with compile,  *)
(* getCompiledAMX and cleanup; SpecInclude is the wrapper with the include *)
(* store.                                                                  *)
(***************************************************************************)
Next ==
  \/ \E c \in Callers : InitCall(c)
  \/ \E c \in Callers, ok \in BOOLEAN : ImportDone(c, ok)
  \/ \E c \in Callers, ok \in BOOLEAN, mkdirOk \in BOOLEAN :
       InstantiateDone(c, ok, mkdirOk)
  \/ \E c \in Callers, env \in CompileEnvs : Compile(c, env)
  \/ \E c \in Callers, readOk \in BOOLEAN : GetCompiledAMX(c, readOk)
  \/ \E c \in Callers, failing \in 0..Len(CleanupFiles) : Cleanup(c, failing)

Spec == Init /\ [][Next]_vars

NextInclude ==
  \/ \E c \in Callers : InitCall(c)
  \/ \E c \in Callers, ok \in BOOLEAN : ImportDone(c, ok)
  \/ \E c \in Callers, ok \in BOOLEAN, mkdirOk \in BOOLEAN :
       InstantiateDone(c, ok, mkdirOk)
  \/ \E c \in Callers, filename \in IncludeNames, content \in Contents :
       AddIncludeFile(c, filename, content)

SpecInclude == Init /\ [][NextInclude]_vars

\* SpecDirs is the wrapper with the include store and names that need
\* directories made.
NextDirs ==
  \/ \E c \in Callers : InitCall(c)
  \/ \E c \in Callers, ok \in BOOLEAN : ImportDone(c, ok)
  \/ \E c \in Callers, ok \in BOOLEAN, mkdirOk \in BOOLEAN :
       InstantiateDone(c, ok, mkdirOk)
  \/ \E c \in Callers, filename \in DeepNames, content \in ShortContents :
       AddIncludeFile(c, filename, content)

SpecDirs == Init /\ [][NextDirs]_vars

\* SpecBulk is the wrapper with the bulk staging of include files.
NextBulk ==
  \/ \E c \in Callers : InitCall(c)
  \/ \E c \in Callers, ok \in BOOLEAN : ImportDone(c, ok)
  \/ \E c \in Callers, ok \in BOOLEAN, mkdirOk \in BOOLEAN :
       InstantiateDone(c, ok, mkdirOk)
  \/ \E c \in Callers, files \in FileLists : AddIncludeFiles(c, files)

SpecBulk == Init /\ [][NextBulk]_vars

\* SpecLoad is the wrapper with the remote loading of include files.
NextLoad ==
  \/ \E c \in Callers : InitCall(c)
  \/ \E c \in Callers, ok \in BOOLEAN : ImportDone(c, ok)
  \/ \E c \in Callers, ok \in BOOLEAN, mkdirOk \in BOOLEAN :
       InstantiateDone(c, ok, mkdirOk)
  \/ \E c \in Callers, filenames \in NameLists : LoadCall(c, filenames)
  \/ \E i \in 1..MaxFiles, ok \in BOOLEAN : FetchDone(i, ok)
  \/ \E i \in 1..MaxFiles, ok \in BOOLEAN, content \in ShortContents :
       TextDone(i, ok, content)
  \/ LoadDone

SpecLoad == Init /\ [][NextLoad]_vars

\* SpecMarshal is the building of the flags by itself, for every set of
\* options.
InitMarshal ==
  /\ compilerModule = 0
  /\ compilerReady = FALSE
  /\ readyCallbacks = <<>>
  /\ initPc = [c \in Callers |-> "idle"]
  /\ fs = EmptyFS
  /\ produced = FALSE
  /\ mine = [c \in Callers |-> FALSE]
  /\ ret = NoCall
  /\ load = NoLoad
  /\ compiling = [c \in Callers |-> NotCompiling]
  /\ arg \in {Some(options) : options \in OptionSets}

NextMarshal == MarshalStep

SpecMarshal == InitMarshal /\ [][NextMarshal]_vars

\* SpecParse is the parser by itself, for every raw output.
InitParse ==
  /\ compilerModule = 0
  /\ compilerReady = FALSE
  /\ readyCallbacks = <<>>
  /\ initPc = [c \in Callers |-> "idle"]
  /\ fs = EmptyFS
  /\ produced = FALSE
  /\ mine = [c \in Callers |-> FALSE]
  /\ ret = NoCall
  /\ load = NoLoad
  /\ compiling = [c \in Callers |-> NotCompiling]
  /\ arg \in {Some(output) : output \in RawOutputs}

NextParse == ParseStep

SpecParse == InitParse /\ [][NextParse]_vars

\* SpecStore is the wrapper with the include store, compile and cleanup
\* together.
NextStore ==
  \/ \E c \in Callers : InitCall(c)
  \/ \E c \in Callers, ok \in BOOLEAN : ImportDone(c, ok)
  \/ \E c \in Callers, ok \in BOOLEAN, mkdirOk \in BOOLEAN :
       InstantiateDone(c, ok, mkdirOk)
  \/ \E c \in Callers, filename \in IncludeNames, content \in ShortContents :
       AddIncludeFile(c, filename, content)
  \/ \E c \in Callers, env \in CompileEnvs : Compile(c, env)
  \/ \E c \in Callers, failing \in 0..Len(CleanupFiles) : Cleanup(c, failing)

SpecStore == Init /\ [][NextStore]_vars

\* SpecArgv is the building of the argument vector by itself: for the options
\* of a compile() call, and for an options string (or NULL) handed to
\* pawncl_compile directly.
ArgvCalls ==
  {[options |-> Some(options), text |-> Absent] :
     options \in OptionSets \cup LongOptionSets}
  \cup {[options |-> Absent, text |-> Absent]}
  \cup {[options |-> Absent, text |-> Some(JoinSpace(Repeated(FlagShort, n)))] :
          n \in 0..MaxTokens}

InitArgv ==
  /\ compilerModule = 0
  /\ compilerReady = FALSE
  /\ readyCallbacks = <<>>
  /\ initPc = [c \in Callers |-> "idle"]
  /\ fs = EmptyFS
  /\ produced = FALSE
  /\ mine = [c \in Callers |-> FALSE]
  /\ ret = NoCall
  /\ load = NoLoad
  /\ compiling = [c \in Callers |-> NotCompiling]
  /\ arg \in {Some(call) : call \in ArgvCalls}

NextArgv == ArgvStep

SpecArgv == InitArgv /\ [][NextArgv]_vars

\* SpecQueue is initCompiler() by itself, with enough callers for the waiter
\* queue to hold several of them.
InitQueue ==
  /\ compilerModule = 0
  /\ compilerReady = FALSE
  /\ readyCallbacks = <<>>
  /\ initPc = [c \in InitCallers |-> "idle"]
  /\ fs = EmptyFS
  /\ produced = FALSE
  /\ mine = [c \in Callers |-> FALSE]
  /\ ret = NoCall
  /\ load = NoLoad
  /\ compiling = [c \in Callers |-> NotCompiling]
  /\ arg = Absent

NextQueue ==
  \/ \E c \in InitCallers : InitCall(c)
  \/ \E c \in InitCallers, ok \in BOOLEAN : ImportDone(c, ok)
  \/ \E c \in InitCallers, ok \in BOOLEAN, mkdirOk \in BOOLEAN :
       InstantiateDone(c, ok, mkdirOk)

SpecQueue == InitQueue /\ [][NextQueue]_vars

\* SpecSteps is the wrapper with compile() taken step by step. The steps of
\* initCompiler() are callbacks of the event loop and run, like a new call,
\* only when no call is running.
NextSteps ==
  \/ OnStack = {} /\ \E c \in Callers : InitCall(c)
  \/ OnStack = {} /\ \E c \in Callers, ok \in BOOLEAN : ImportDone(c, ok)
  \/ OnStack = {} /\ \E c \in Callers, ok \in BOOLEAN, mkdirOk \in BOOLEAN :
                       InstantiateDone(c, ok, mkdirOk)
  \/ \E c \in Callers : CompileStart(c)
  \/ \E c \in Callers, callOk \in BOOLEAN, fopen \in BOOLEAN :
       WriteInput(c, callOk, fopen)
  \/ \E c \in Callers, pc \in PcOutcomes, abort \in BOOLEAN :
       RunCompiler(c, pc, abort)
  \/ \E c \in Callers, malloc \in BOOLEAN : BuildResult(c, malloc)
  \/ \E c \in Callers, fault \in {"none", "string", "free"} :
       CompileReturn(c, fault)

SpecSteps == Init /\ [][NextSteps]_vars

(***************************************************************************)
(* Properties.                                                             *)
(***************************************************************************)
Loading == {c \in Callers : initPc[c] \in {"importing", "instantiating"}}

Queued == {c \in Callers : initPc[c] = "queued"}

IsFile(f, p) == Exists(f, p) /\ f[p].kind = "file"

\* C1: concurrent initCompiler() calls load the module once: at no time are
\* two callers performing a load, and at most one module instance is ever
\* created.
C1_SingleLoad ==
  /\ Cardinality(Loading) <= 1
  /\ compilerModule <= 1

\* C2: callers queued on the waiter list settle when the initialization in
\* flight fails: once no load is in flight, no caller is left queued, since a
\* queued caller is settled by a load only.
C2_QueuedCallersSettle == (Loading = {}) => (Queued = {})

\* C3: a failed load leaves the lifecycle state Uninitialized: when no load is
\* in flight and the wrapper is not Ready, no module handle is set, so the next
\* initCompiler() call loads afresh.
C3_FailureLeavesUninitialized ==
  (Loading = {} /\ ~compilerReady) => compilerModule = 0

\* C4: the artifact a caller fetches after its own compile wrote one and
\* returned success is the artifact of that caller's source.
C4_OwnArtifact ==
  (ret.op = "getCompiledAMX" /\ ~ret.threw /\ mine[ret.caller]
     /\ ret.value # Absent)
  => \A i \in 1..Len(ret.value[1]) : ret.value[1][i] = ret.caller

\* C5: compile() called while the wrapper is not Ready throws the
\* initialization-required error, calls no boundary function and leaves the
\* filesystem as it was.
C5_CompileNeedsReady ==
  [][~(compilerReady /\ compilerModule # 0)
     => \A c \in Callers, env \in CompileEnvs :
          Compile(c, env)
          => /\ ret'.threw
             /\ ret'.value = ErrNotInitialized
             /\ ret'.ccalls = <<>>
             /\ fs' = fs]_vars

\* C5 witness: compile() was refused although a module handle is set.
C5_Witness ==
  /\ ret.op = "compile"
  /\ ret.threw
  /\ compilerModule # 0
  /\ ~compilerReady

\* C6: whatever is thrown at the boundary inside compile() is returned as a
\* result with success = false, the failure text as output and as the only
\* entry of errors, and no warnings; compile() does not throw it.
C6_BoundaryFailureIsAResult ==
  (ret.op = "compile" /\ ret.fault # "none")
  => /\ ~ret.threw
     /\ ret.value.success = FALSE
     /\ ret.value.output = FaultText(ret.fault)
     /\ ret.value.errors = <<FaultText(ret.fault)>>
     /\ ret.value.warnings = <<>>

\* C6 witness: each kind of boundary failure has been returned as a result.
C6_Witness ==
  /\ ret.op = "compile"
  /\ ret.fault = "free"
  /\ ret.ccalls = <<"pawncl_compile", "pawncl_free">>
  /\ ret.value.errors = <<TextBadPointer>>

\* C7: every result compile() returns with success = false has an entry in
\* errors.
C7_FailureHasErrors ==
  (ret.op = "compile" /\ ~ret.threw /\ ret.value.success = FALSE)
  => ret.value.errors # <<>>

\* C8: getCompiledAMX() called after a compile() that returned
\* success = false returns null.
C8_NoArtifactAfterFailure ==
  [][(ret.op = "compile" /\ ~ret.threw /\ ret.value.success = FALSE)
     => \A c \in Callers, readOk \in BOOLEAN :
          GetCompiledAMX(c, readOk) => ret'.value = Absent]_vars

\* C9 as stated: getCompiledAMX() called before any compile has written an
\* artifact returns null and never throws, whatever the lifecycle state.
C9_AbsentNeverThrows ==
  (ret.op = "getCompiledAMX" /\ ~produced)
  => (~ret.threw /\ ret.value = Absent)

\* C9 as amended: getCompiledAMX() called before any compile has written an
\* artifact returns null, without throwing, when a module handle is set, and
\* throws "Compiler not initialized." when none is set; it never returns an
\* empty buffer.
C9_AbsentOnceLoaded ==
  [][~produced
     => \A c \in Callers, readOk \in BOOLEAN :
          GetCompiledAMX(c, readOk)
          => IF compilerModule = 0
             THEN ret'.threw /\ ret'.value = ErrNotInitializedShort
             ELSE ~ret'.threw /\ ret'.value = Absent]_vars

\* C9 witness: null was returned on a loaded module that has no artifact yet,
\* after a compile that failed.
C9_Witness ==
  /\ ret.op = "getCompiledAMX"
  /\ ~ret.threw
  /\ ret.value = Absent
  /\ ~produced
  /\ compilerModule # 0
  /\ Exists(fs, PathInput)

\* C10: addIncludeFile on a path where an include file exists leaves exactly
\* the new content there and every other node of the filesystem as it was.
C10_SecondAddReplaces ==
  [][\A filename \in IncludeNames :
       (compilerModule # 0 /\ IsFile(fs, PathInclude \o filename))
       => \A c \in Callers, content \in Contents :
            (/\ ret'.op = "addIncludeFile"
             /\ ret'.value.path = filename
             /\ AddIncludeFile(c, filename, content))
            => /\ ~ret'.threw
               /\ DOMAIN fs' = DOMAIN fs
               /\ fs'[PathInclude \o filename] = FileNode(content)
               /\ \A q \in DOMAIN fs \ {PathInclude \o filename} :
                    fs'[q] = fs[q]]_vars

\* C10 witness: a file was replaced by a shorter content while another include
\* file was staged.
C10_Witness ==
  /\ ret.op = "addIncludeFile"
  /\ ~ret.threw
  /\ ret.value.old # Absent
  /\ IsFile(fs, PathInclude \o ret.value.path)
  /\ Len(fs[PathInclude \o ret.value.path].data) < ret.value.old[1]
  /\ \E q \in DOMAIN fs :
       q # PathInclude \o ret.value.path /\ IsFile(fs, q)

\* The directory prefixes of an include file name, from the include root
\* down: every prefix of the name but the whole name.
DirPrefixes(filename) ==
  [i \in 1..(Len(filename) - 1) |-> PathInclude \o SubSeq(filename, 1, i)]

\* C11: addIncludeFile on a loaded module calls mkdir for the directory
\* prefixes of the name, final segment excluded, in order from the include
\* root down, and stops only at a failure it propagates; a prefix that exists
\* already counts as created; a prefix that cannot be created and does not
\* exist makes the call throw that failure with every file left as it was.
C11_DirsEnsured ==
  [][\A filename \in DeepNames :
       (/\ compilerModule # 0
        /\ ret'.op = "addIncludeFile"
        /\ ret'.value.path = filename)
       => \A c \in Callers, content \in ShortContents :
            AddIncludeFile(c, filename, content)
            => LET v == ret'.value
                   want == DirPrefixes(filename)
                   n == Len(v.tried)
               IN /\ n <= Len(want)
                  /\ v.tried = SubSeq(want, 1, n)
                  /\ (v.stage # "mkdir") <=> (\A i \in 1..n : Exists(fs', want[i]))
                  /\ (\A i \in 1..Len(want) : Exists(fs, want[i]))
                       => v.stage # "mkdir"
                  /\ v.stage # "mkdir" => n = Len(want)
                  /\ v.stage = "mkdir"
                       => /\ ret'.threw
                          /\ v.err \notin {"none", "EEXIST"}
                          /\ v.err = FSMkdir(fs', want[n]).err
                          /\ \A p \in DOMAIN fs \cup DOMAIN fs' :
                               (IsFile(fs, p) \/ IsFile(fs', p))
                               => (p \in DOMAIN fs /\ p \in DOMAIN fs'
                                   /\ fs'[p] = fs[p])]_vars

\* C11 witness: a three-segment name whose first prefix is a file: both
\* prefixes were tried in order, the first one existed and was passed, and
\* the failure of the second one was thrown.
C11_Witness ==
  /\ ret.op = "addIncludeFile"
  /\ ret.threw
  /\ ret.value.stage = "mkdir"
  /\ ret.value.err = "ENOTDIR"
  /\ Len(ret.value.tried) = 2
  /\ IsFile(fs, ret.value.tried[1])
  /\ ~Exists(fs, ret.value.tried[2])

\* The last entry among files[j .. last] that has the name of entry j.
NameLast(files, j, last) ==
  CHOOSE k \in j..last :
    /\ files[k].filename = files[j].filename
    /\ \A m \in (k + 1)..last : files[m].filename # files[j].filename

\* The paths the first i entries of a list name: each file and its
\* directory prefixes.
Touched(files, i) ==
  UNION {{PathInclude \o SubSeq(files[j].filename, 1, m) :
            m \in 1..Len(files[j].filename)} : j \in 1..i}

\* C12: addIncludeFiles stages the entries in list order and stops at the
\* first entry whose staging throws: the call throws exactly then; every
\* entry before it is in the store with the content of the last such entry of
\* its name (no rollback); the failing entry is not a file of the store; and
\* every path not named by the entries up to the failing one is as it was,
\* so no later entry is staged.
C12_BulkStopsAtFirstFailure ==
  [][(ret'.op = "addIncludeFiles")
     => \A contents \in [DOMAIN ret'.value.names -> ShortContents] :
          LET files == [j \in DOMAIN contents |->
                          [filename |-> ret'.value.names[j],
                           content |-> contents[j]]]
          IN \A c \in Callers :
               AddIncludeFiles(c, files)
               => LET i == ret'.value.failedAt
                      done == IF i = 0 THEN Len(files) ELSE i - 1
                  IN /\ ret'.threw <=> (i # 0)
                     /\ \A j \in 1..done :
                          /\ IsFile(fs', PathInclude \o files[j].filename)
                          /\ fs'[PathInclude \o files[j].filename].data
                               = files[NameLast(files, j, done)].content
                     /\ (i # 0)
                          => ~IsFile(fs', PathInclude \o files[i].filename)
                     /\ \A p \in (DOMAIN fs \cup DOMAIN fs')
                                  \ Touched(files, IF i = 0 THEN done ELSE i) :
                          /\ p \in DOMAIN fs
                          /\ p \in DOMAIN fs'
                          /\ fs'[p] = fs[p]]_vars

\* C12 witness: a call with two entries on a loaded module whose second
\* entry threw, while a file is in the store.
C12_Witness ==
  /\ ret.op = "addIncludeFiles"
  /\ ret.threw
  /\ compilerModule # 0
  /\ Len(ret.value.names) = 2
  /\ ret.value.failedAt = 2
  /\ \E p \in DOMAIN fs : IsFile(fs, p)

\* C13 as stated: when every fetch of a loadIncludeFiles call has settled,
\* every file whose fetch succeeded is a file of the include store.
C13_FetchedIsStaged ==
  (load.caller # 0 /\ AllSettled(load.files))
  => \A i \in DOMAIN load.files :
       load.files[i].st # "fetchFailed"
       => IsFile(fs, PathInclude \o load.files[i].filename)

\* C13 amended: a fetch that settles, failed or not, changes the callback of
\* its own file only and leaves the store alone; a body that is read is
\* passed to addIncludeFile, whose outcome settles that file only; the call
\* returns only when every file has settled; and when all have settled, every
\* file whose addIncludeFile did not throw is a file of the store, provided
\* one module instance only has been created.
C13_FailuresIsolated ==
  [][/\ \A i \in DOMAIN load.files, ok \in BOOLEAN :
          FetchDone(i, ok)
          => /\ fs' = fs
             /\ load'.files[i].st = (IF ok THEN "reading" ELSE "fetchFailed")
             /\ \A j \in DOMAIN load.files \ {i} :
                  load'.files[j] = load.files[j]
     /\ \A i \in DOMAIN load.files, content \in ShortContents :
          TextDone(i, TRUE, content)
          => /\ \A j \in DOMAIN load.files \ {i} :
                  load'.files[j] = load.files[j]
             /\ IF load'.files[i].st = "staged"
                THEN /\ IsFile(fs', PathInclude \o load.files[i].filename)
                     /\ fs'[PathInclude \o load.files[i].filename].data
                          = content
                ELSE /\ load'.files[i].st = "stageFailed"
                     /\ \/ compilerModule = 0
                        \/ AddIncludeCall(fs, load.files[i].filename,
                                          content).err # "none"
     /\ LoadDone => AllSettled(load.files)
     /\ (load'.caller # 0 /\ AllSettled(load'.files) /\ compilerModule' <= 1)
         => \A i \in DOMAIN load'.files :
              load'.files[i].st = "staged"
              => IsFile(fs', PathInclude \o load'.files[i].filename)]_vars

\* C13 witness: every file of a call has settled, the fetch of the first one
\* failed, and the second one is in the store.
C13_Witness ==
  /\ load.caller # 0
  /\ Len(load.files) = 2
  /\ load.files[1].st = "fetchFailed"
  /\ load.files[2].st = "staged"
  /\ IsFile(fs, PathInclude \o load.files[2].filename)

\* C14 as stated: a loadIncludeFiles call in which files failed gives the
\* caller the count of the failures.
C14_CountReturned ==
  (ret.op = "loadIncludeFiles" /\ ret.value.warned # Absent)
  => ret.value.returned = ret.value.warned

\* C14 amended: a loadIncludeFiles call never throws and resolves with no
\* value, whatever failed; the count of the files that failed (fetch, body
\* read or staging) is passed to console.warn only, and only when it is not 0.
C14_CountOnlyLogged ==
  [][LoadDone
     => LET failed == Cardinality({i \in DOMAIN load.files :
                                     load.files[i].st # "staged"})
        IN /\ ret'.op = "loadIncludeFiles"
           /\ ~ret'.threw
           /\ ret'.value.returned = Absent
           /\ ret'.value.warned
                = (IF failed = 0 THEN Absent ELSE Some(failed))]_vars

\* C14 witness: a call returned after one of its files failed and another
\* one was staged.
C14_Witness ==
  /\ ret.op = "loadIncludeFiles"
  /\ ~ret.threw
  /\ ret.value.returned = Absent
  /\ ret.value.warned = Some(1)
  /\ \E p \in DOMAIN fs : IsFile(fs, p)

\* The flags of the additional list, each one after a single space.
RECURSIVE SpacedFlags(_)
SpacedFlags(flags) ==
  IF flags = <<>> THEN <<>>
  ELSE <<" ">> \o flags[1] \o SpacedFlags(Tail(flags))

\* C15: the flags are -O<n> and a space if optimizationLevel is present,
\* then -d<n> and a space if debugLevel is present, then -i/include, then each
\* additional flag as given after a single space, with no path of a source
\* file; the options worked in the contract give "-O2 -d3 -i/include -Z+".
C15_MarshalOrder ==
  (ret.op = "marshal")
  => LET options == arg[1]
     IN /\ ret.value
            = (IF options.optimizationLevel = Absent THEN <<>>
               ELSE FlagO \o ToDecimal(options.optimizationLevel[1])
                    \o <<" ">>)
              \o (IF options.debugLevel = Absent THEN <<>>
                  ELSE FlagD \o ToDecimal(options.debugLevel[1]) \o <<" ">>)
              \o FlagInclude
              \o (IF options.additionalFlags = Absent THEN <<>>
                  ELSE SpacedFlags(options.additionalFlags[1]))
        /\ ~Includes(ret.value, ArgInput)
        /\ (options = [optimizationLevel |-> Some(2), debugLevel |-> Some(3),
                       additionalFlags |-> Some(<<<<"-", "Z", "+">>>>)])
            => ret.value = <<"-", "O", "2", " ", "-", "d", "3", " ", "-", "i", "/", "i", "n", "c", "l", "u", "d", "e", " ", "-", "Z", "+">>

\* C15 witness: the options worked in the contract have been marshaled.
C15_Witness ==
  /\ ret.op = "marshal"
  /\ arg = Some([optimizationLevel |-> Some(2), debugLevel |-> Some(3),
                 additionalFlags |-> Some(<<<<"-", "Z", "+">>>>)])
  /\ ret.value = <<"-", "O", "2", " ", "-", "d", "3", " ", "-", "i", "/", "i", "n", "c", "l", "u", "d", "e", " ", "-", "Z", "+">>

\* The lines of a raw output that have a marker line's size in them.
SizedMarkerLines(raw) ==
  {i \in 1..Len(SplitLines(raw)) :
     /\ Includes(SplitLines(raw)[i], MarkSuccess)
     /\ SizeMatches(SplitLines(raw)[i]) # {}}

\* C16: success is true exactly when the raw output has the marker
\* "Compilation successful" (in some line, the marker having no line break),
\* whatever errors holds; amxSize is present exactly when a marker line also
\* matches "AMX file size: <N> bytes", and is the N of such a line; output is
\* the raw text; the output worked in the contract gives success, 4096 and
\* no errors or warnings.
C16_SuccessMarker ==
  (ret.op = "parse")
  => LET raw == arg[1]
         result == ret.value
     IN /\ result.success <=> Includes(raw, MarkSuccess)
        /\ result.output = raw
        /\ (result.amxSize # Absent) <=> (SizedMarkerLines(raw) # {})
        /\ (result.amxSize # Absent)
            => \E i \in SizedMarkerLines(raw) :
                 result.amxSize
                   = Some(ParseInt(SizeCapture(SplitLines(raw)[i])))
        /\ (raw = OutputWithSize)
            => /\ result.success
               /\ result.amxSize = Some(4096)
               /\ result.errors = <<>>
               /\ result.warnings = <<>>

\* C16 witness: the output worked in the contract has been parsed.
C16_Witness ==
  /\ ret.op = "parse"
  /\ arg = Some(OutputWithSize)
  /\ ret.value.success
  /\ ret.value.amxSize = Some(4096)

\* The lines of a raw output that have both texts, in line order.
LinesWith(raw, a, b) ==
  SelectSeq(SplitLines(raw),
            LAMBDA line : Includes(line, a) /\ Includes(line, b))

\* C17 as stated: errors is the lines that have "error" and ":", as they
\* are, in line order, and warnings the lines that have "warning" and ":".
C17_LinesVerbatim ==
  (ret.op = "parse")
  => /\ ret.value.errors = LinesWith(arg[1], MarkError, MarkColon)
     /\ ret.value.warnings = LinesWith(arg[1], MarkWarning, MarkColon)

\* C17 amended: errors is the lines that have "error" and ":", each with its
\* leading and trailing white space removed, in line order and nothing else;
\* warnings likewise for "warning" and ":"; a line with all three texts is in
\* both lists, whatever success is.
C17_LinesTrimmed ==
  (ret.op = "parse")
  => LET errs == LinesWith(arg[1], MarkError, MarkColon)
         warns == LinesWith(arg[1], MarkWarning, MarkColon)
     IN /\ ret.value.errors = [i \in 1..Len(errs) |-> Trim(errs[i])]
        /\ ret.value.warnings = [i \in 1..Len(warns) |-> Trim(warns[i])]

\* C17 witness: a parsed output one line of which is in both lists, and
\* another line of which is in errors without its white space.
C17_Witness ==
  /\ ret.op = "parse"
  /\ \E i \in 1..Len(ret.value.errors), j \in 1..Len(ret.value.warnings) :
       ret.value.errors[i] = ret.value.warnings[j]
  /\ \E line \in {SplitLines(arg[1])[i] : i \in 1..Len(SplitLines(arg[1]))} :
       /\ Trim(line) # line
       /\ \E i \in 1..Len(ret.value.errors) : ret.value.errors[i] = Trim(line)
       /\ \A i \in 1..Len(ret.value.errors) : ret.value.errors[i] # line

\* C18: cleanup() removes each of the three fixed paths on its own: whichever
\* path's removal fails, every other path is gone after the call.
C18_EachPathBestEffort ==
  [][(compilerModule # 0 /\ ret'.op = "cleanup")
     => \A c \in Callers, failing \in 0..Len(CleanupFiles) :
          Cleanup(c, failing)
          => \A i \in 1..Len(CleanupFiles) :
               (i # failing) => ~Exists(fs', CleanupFiles[i])]_vars

C20_ReadyStays ==
  [][/\ compilerReady => (compilerReady' /\ compilerModule' # 0)
     /\ compilerReady
        => \A c \in Callers :
             InitCall(c)
             => /\ initPc' = initPc
                /\ compilerModule' = compilerModule
                /\ fs' = fs
                /\ readyCallbacks' = readyCallbacks
                /\ ret' = InitReturned]_vars

\* C20 witness: an initCompiler() call has returned at once on a Ready
\* wrapper whose include directory is there.
C20_Witness ==
  /\ ret.op = "initCompiler"
  /\ compilerReady
  /\ compilerModule # 0
  /\ IsDir(fs, PathInclude)
  /\ readyCallbacks = <<>>

\* C21: a queued caller resumes only in the step in which an initializer has
\* made /include and set compilerReady; that step calls the queued callbacks
\* in the order they were queued, each once, resumes every queued caller and
\* leaves the queue empty. A caller is queued exactly while one entry of the
\* queue is its own, and whenever the wrapper is Ready the queue is empty.
C21_WaitersResumeInOrder ==
  /\ [](compilerReady => readyCallbacks = <<>>)
  /\ [](\A c \in InitCallers :
          initPc[c] = "queued"
          <=> Cardinality({i \in 1..Len(readyCallbacks) :
                            readyCallbacks[i] = c}) = 1)
  /\ [][(\E c \in InitCallers : initPc[c] = "queued" /\ initPc'[c] # "queued")
        => /\ ~compilerReady
           /\ compilerReady'
           /\ IsDir(fs', PathInclude)
           /\ ret'.op = "resolve"
           /\ ret'.value = readyCallbacks
           /\ readyCallbacks' = <<>>
           /\ \A d \in InitCallers :
                initPc[d] = "queued" => initPc'[d] = "idle"]_vars

\* C21 witness: an initialization has resumed two queued callers.
C21_Witness ==
  /\ ret.op = "resolve"
  /\ Len(ret.value) >= 2
  /\ compilerReady

\* C22: at most one compile() call is running at a time; while a call is
\* running, every step taken is a step of that call; the compiler runs on
\* the source of the call that wrote /input.pwn, and the result a call
\* returns is the one its own steps built.
C22_OneCompileAtATime ==
  /\ [](Cardinality(OnStack) <= 1)
  /\ [](\A c \in Callers :
          compiling[c].at = "written"
          => IsFile(fs, PathInput) /\ fs[PathInput].data = SourceText(c))
  /\ [][\A c \in OnStack :
          /\ compiling'[c] # compiling[c]
          /\ \A d \in Callers \ {c} : compiling'[d] = compiling[d]
          /\ (compiling[c].at = "ran" => fs' = fs)
          /\ (compiling[c].at = "built"
              => /\ fs' = fs
                 /\ ret'.op = "compile"
                 /\ (ret'.fault = "none"
                     => ret'.value.output = compiling[c].msg))]_vars

\* C22 witness: a call has gone all the way to its built message after
\* another caller's compile() had written /output.amx.
C22_Witness ==
  \E c \in Callers :
    /\ compiling[c].at = "built"
    /\ compiling[c].wrote
    /\ \E d \in Callers \ {c} : mine[d]

\* The texts of the elements of an argument vector.
ArgvTexts(argv) == [i \in 1..Len(argv) |-> argv[i].text]

\* C23: for every options object, the argument vector handed to the compiler
\* is "pawncc", "-o/output.amx", the marshaled flags with one element per
\* flag in marshaled order, and "/input.pwn".
C23_ArgvIsMarshaledFlags ==
  (ret.op = "argv" /\ arg[1].options # Absent)
  => ArgvTexts(ret.value.argv)
       = <<ArgProgram, ArgOutput>> \o OptionsArray(arg[1].options[1])
         \o <<ArgInput>>

\* C29: every element of argv that was duplicated onto the heap is passed to
\* free exactly once before pawncl_compile returns, and no element that is a
\* string literal is passed to free.
C29_TokensFreedOnce ==
  (ret.op = "argv")
  => LET argv == ret.value.argv
         freed == ret.value.freed
     IN /\ \A k \in 0..(Len(argv) - 1) :
             argv[k + 1].heap
             => Cardinality({j \in 1..Len(freed) : freed[j] = k}) = 1
        /\ \A j \in 1..Len(freed) :
             /\ freed[j] + 1 \in 1..Len(argv)
             /\ argv[freed[j] + 1].heap

\* C24: on every exit path of a compile() call to which pawncl_compile
\* returned its result buffer, pawncl_free is called exactly once.
C24_BufferReleasedOnce ==
  (ret.op = "compile" /\ ~ret.threw /\ ret.fault \notin {"call", "abort"})
  => Cardinality({i \in 1..Len(ret.ccalls) : ret.ccalls[i] = "pawncl_free"})
       = 1

\* The include files of a filesystem: the files below /include.
IncludeFiles(f) ==
  {p \in DOMAIN f : Len(p) >= 2 /\ p[1] = PathInclude[1] /\ IsFile(f, p)}

\* C25: once the wrapper is Ready the module instance it holds is never
\* replaced, and every include file staged in it is still a file of the
\* filesystem after every later step, so that a later compile() finds it.
C25_IncludesSurvive ==
  [][compilerReady
     => /\ compilerModule' = compilerModule
        /\ \A p \in IncludeFiles(fs) : p \in IncludeFiles(fs')]_vars

====
